---- MODULE Spec2Model ----
(***************************************************************************)
(* Model of git-tools: the merge orchestrator handle_merge (src/main.rs),  *)
(* the repository primitives of GitHandler (src/git.rs) and the retry loop *)
(* of ConflictResolver::resolve_conflict (src/ai.rs).                      *)
(*                                                                         *)
(* The repository is one record (HEAD, branch tips, working tree, index,   *)
(* MERGE_HEAD).  libgit2 calls are modelled by their documented effect:    *)
(* Repository::merge writes the merge result into index and working tree   *)
(* and records MERGE_HEAD; Repository::cleanup_state only removes the      *)
(* merge metadata; Repository::commit does not remove it.                  *)
(***************************************************************************)
EXTENDS Integers, Sequences, FiniteSets, TLC

\* ---------------------------------------------------------------- bounds
MaxFiles == 2
MaxRetriesBound == 2
MaxLines == 9
MaxChoices == 2

\* ------------------------------------------------------ program constants
BACKOFF_BASE_MS == 500
BACKOFF_FACTOR == 2

\* ------------------------------------------------------------ input sets
PathNames == <<"a.txt", "b.txt", "c.txt", "d.txt">>
Paths == {PathNames[k] : k \in 1..MaxFiles}
Branches == {"main", "feature"}
Names == Branches \cup {"nope"}
Texts == {"r1", "r2"}
\* the MergeAnalysis flags and the values Repository::merge_analysis
\* gives on a born HEAD: source reachable from target; target an ancestor
\* of source (fast-forward possible, reported together with NORMAL);
\* diverged histories
ANALYSIS_NORMAL == "ANALYSIS_NORMAL"
ANALYSIS_UP_TO_DATE == "ANALYSIS_UP_TO_DATE"
ANALYSIS_FASTFORWARD == "ANALYSIS_FASTFORWARD"
UpToDate == {ANALYSIS_UP_TO_DATE}
FastForwardPossible == {ANALYSIS_FASTFORWARD, ANALYSIS_NORMAL}
Diverged == {ANALYSIS_NORMAL}
Analyses == {UpToDate, FastForwardPossible, Diverged}
FailKinds == {"transport", "status", "parse", "no_choices"}
ApplyFailPoints == {"write", "stage"}

VARIABLES
  pc,             \* position in handle_merge / resolve_conflict
  target, source, \* the branch names given on the command line
  apiKey,         \* Settings.openai_api_key.is_some()
  max_retries,    \* Settings.max_retries
  analysis,       \* what merge_analysis answers for (target, source)
  conflictPaths,  \* the paths the three-way merge leaves in conflict
  excludedPaths,  \* those of them whose entry lacks a side or is not text
  conflictTxtBoth,\* conflict.txt in the work dir holds both probe strings
  repo,           \* [head, tip, wt, index, mergeHead]
  preMerge,       \* repo as it was right before Repository::merge
  has_conflicts,  \* result of merge_branches
  conflicts,      \* result of get_conflicts
  i,              \* index of the for loop over conflicts
  all_resolved,   \* the flag of handle_merge
  attempts,       \* the counter of resolve_conflict
  failures,       \* failed attempts of the current resolve_conflict call
  sleeps,         \* backoff sleeps of the current resolve_conflict call
  lastErr,        \* error of the last failed attempt
  resolution,     \* text returned by the current resolve_conflict call
  inflight,       \* HTTP requests awaiting their response
  requests,       \* HTTP requests sent so far
  mergeCalls,     \* calls of merge_branches
  resolveCalls,   \* paths resolve_conflict was called for, in call order
  resolutions,    \* results returned by resolve_conflict, in order
  applyCalls,     \* calls of apply_resolution, with what was known then
  abortCalls,     \* calls of abort_merge, with what was known then
  outcomes,       \* per-file outcomes printed by handle_merge
  report,         \* the closing message printed by handle_merge
  result,         \* what handle_merge returns
  failure,        \* detail of the last failed attempt (the e of ai.rs 168)
  error,          \* the error resolve_conflict returns
  choices,        \* choices of the last response that parsed
  conflict,       \* the ConflictFile given to resolve_conflict
  description,    \* the user message built by resolve_conflict
  content,        \* the argument of extract_conflict_content
  excerpt,        \* the value extract_conflict_content returns
  entries,        \* what index.conflicts() yields to get_conflicts
  history,        \* the commits and branches list_unique_commits walks
  commits,        \* the value list_unique_commits returns
  layers,         \* the config files and environment Settings::load reads
  settings,       \* the value Settings::load returns
  overflow_checks,\* the build panics on integer overflow (else it wraps)
  wrapped         \* some integer operation of resolve_conflict has wrapped

vars == <<pc, target, source, apiKey, max_retries, analysis, conflictPaths,
          excludedPaths,
          conflictTxtBoth, excludedPaths,
          repo, preMerge, has_conflicts, conflicts, i,
          all_resolved, attempts, failures, sleeps, lastErr, resolution,
          inflight, requests, mergeCalls, resolveCalls, resolutions,
          applyCalls, abortCalls, outcomes, report, result, failure, error,
          choices, conflict, description, content, excerpt, entries,
          history, commits, layers, settings, overflow_checks, wrapped>>

\* what only resolve_conflict and extract_conflict_content work on
buildVars == <<overflow_checks, wrapped>>
dataVars == <<entries, history, commits, layers, settings, buildVars>>
pureVars == <<conflict, description, content, excerpt, dataVars>>

\* what one attempt of resolve_conflict leaves behind
retVars == <<error, failure, choices>>

\* --------------------------------------------------------------- helpers
Content(kind, v) == [kind |-> kind, v |-> v]
Staged(c) == [st |-> "staged", c |-> c]
Conflict(c) == [st |-> "conflict", c |-> c]

TreeWt(commit) == [p \in Paths |-> Content("blob", commit)]
TreeIndex(commit) == [p \in Paths |-> Staged(Content("blob", commit))]

Running == [status |-> "Running", kind |-> "-", role |-> "-", name |-> "-"]
Ok == [status |-> "Ok", kind |-> "-", role |-> "-", name |-> "-"]
Err(kind, role, name) ==
  [status |-> "Err", kind |-> kind, role |-> role, name |-> name]

Min(a, b) == IF a < b THEN a ELSE b

RECURSIVE Sum(_)
Sum(s) == IF s = <<>> THEN 0 ELSE Head(s) + Sum(Tail(s))

\* ------------------------------------------------- GitHandler primitives
\* mutant: every name is taken for an existing branch
branch_exists_any(name) == name \in Names

branch_exists(name) == name \in Branches

checkout_branch(r, b) ==
  [r EXCEPT !.head = b,
            !.wt = TreeWt(r.tip[b]),
            !.index = TreeIndex(r.tip[b])]

\* Repository::merge with fail_on_conflict(false) and allow_conflicts(true)
\* cp are the paths left in conflict; for those in ex the conflict entry
\* lacks a side (one branch deleted the file) or has a side that is not
\* text, and the working tree keeps a file without markers
repo_merge(r, cp, ex) ==
  [r EXCEPT !.wt = [p \in Paths |->
                      IF p \in ex THEN Content("unmerged", "-")
                      ELSE IF p \in cp THEN Content("markers", "-")
                      ELSE Content("clean_merge", "-")],
            !.index = [p \in Paths |->
                      IF p \in ex THEN Conflict(Content("unmerged", "-"))
                      ELSE IF p \in cp THEN Conflict(Content("markers", "-"))
                      ELSE Staged(Content("clean_merge", "-"))],
            !.mergeHead = TRUE]

index_has_conflicts(r) == \E p \in Paths : r.index[p].st = "conflict"

\* a commit object: its parents in order and its tree
Commit(parents, tree) == [parents |-> parents, tree |-> tree]
NoCommit == Commit(<<>>, "-")

\* mutant: the parents are recorded source first
create_merge_commit_swapped(r, t, s) ==
  [r EXCEPT !.tip[r.head] = "c_merge",
            !.mergeCommit = Commit(<<r.tip[s], r.tip[t]>>, r.index)]

\* git.rs 280-315: the index written as a tree, the tips of the two named
\* branches as parents, HEAD moved to the new commit
create_merge_commit(r, t, s) ==
  [r EXCEPT !.tip[r.head] = "c_merge",
            !.mergeCommit = Commit(<<r.tip[t], r.tip[s]>>, r.index)]

checkout_head(r) ==
  [r EXCEPT !.wt = [p \in Paths |-> r.index[p].c]]

fast_forward_merge(r, commit) ==
  [r EXCEPT !.tip[r.head] = commit,
            !.wt = TreeWt(commit),
            !.index = TreeIndex(commit)]

WriteFile(r, path, text) ==
  [r EXCEPT !.wt[path] = Content("resolution", text)]

StagePath(r, path) ==
  [r EXCEPT !.index[path] = Staged(r.wt[path])]

\* mutant: the file is written but never added to the index
apply_resolution_nostage(r, path, text) == WriteFile(r, path, text)

apply_resolution(r, path, text) == StagePath(WriteFile(r, path, text), path)

\* mutant: the merge state files are left in place
abort_merge_noop(r) == r

abort_merge(r) == [r EXCEPT !.mergeHead = FALSE]

RECURSIVE EnumFrom(_, _)
EnumFrom(k, S) ==
  IF k > MaxFiles THEN <<>>
  ELSE (IF PathNames[k] \in S THEN <<[path |-> PathNames[k]]>> ELSE <<>>)
         \o EnumFrom(k + 1, S)

\* git.rs 177-222: the entries with both sides and text contents, in
\* index order
get_conflicts(r) ==
  EnumFrom(1, {p \in Paths : /\ r.index[p].st = "conflict"
                             /\ r.index[p].c.kind = "markers"})

\* ---------------------------------------------------------------- text
\* A text is its lines (what str::lines yields) and whether the last line
\* is terminated by "\n".  A line is n characters of w bytes each; mark
\* tells which conflict markers it contains; cut tells that only a prefix
\* of the original line is left.  A text that does not end with "\n" has
\* no empty last line.
Line(mark, n, w) == [mark |-> mark, n |-> n, w |-> w, cut |-> FALSE]
Text(ls, nl) == [lines |-> ls, nl |-> nl]
EmptyText == Text(<<>>, FALSE)

ShortLine == Line("none", 1, 1)
LongLine == Line("none", 250, 1)
WideLine == Line("none", 167, 3)
StartLine == Line("start", 12, 1)
EndLine == Line("end", 9, 1)
BothLine == Line("both", 22, 1)

RECURSIVE LineBytes(_)
LineBytes(ls) ==
  IF ls = <<>> THEN 0 ELSE Head(ls).n * Head(ls).w + LineBytes(Tail(ls))

RECURSIVE LineChars(_)
LineChars(ls) == IF ls = <<>> THEN 0 ELSE Head(ls).n + LineChars(Tail(ls))

Newlines(t) ==
  (IF Len(t.lines) > 0 THEN Len(t.lines) - 1 ELSE 0) + (IF t.nl THEN 1 ELSE 0)

\* str::len, in bytes
Bytes(t) == LineBytes(t.lines) + Newlines(t)

\* number of characters
Chars(t) == LineChars(t.lines) + Newlines(t)

\* <[&str]>::join("\n")
Join(ls) ==
  IF ls = <<>> THEN EmptyText
  ELSE IF ls[Len(ls)].n > 0 THEN Text(ls, FALSE)
  ELSE IF Len(ls) = 1 THEN EmptyText
  ELSE Text(SubSeq(ls, 1, Len(ls) - 1), TRUE)

\* &s[..k] for k < s.len(): the first k bytes, or a panic when byte k is
\* not a character boundary
RECURSIVE Take(_, _, _)
Take(ls, nl, k) ==
  IF k = 0 \/ ls = <<>> THEN [panic |-> FALSE, text |-> EmptyText]
  ELSE LET l == Head(ls)
           b == l.n * l.w
           rest == Tail(ls)
       IN IF k < b
          THEN IF k % l.w # 0
               THEN [panic |-> TRUE, text |-> EmptyText]
               ELSE [panic |-> FALSE,
                     text |-> Text(<<[l EXCEPT !.n = k \div l.w,
                                               !.cut = TRUE]>>, FALSE)]
          ELSE IF k = b
          THEN [panic |-> FALSE,
                text |-> IF b = 0 THEN EmptyText ELSE Text(<<l>>, FALSE)]
          ELSE IF rest = <<>>
          THEN [panic |-> FALSE, text |-> Text(<<l>>, nl)]
          ELSE LET r == Take(rest, nl, k - b - 1)
               IN [panic |-> r.panic,
                   text |-> IF r.text.lines = <<>>
                            THEN Text(<<l>>, TRUE)
                            ELSE Text(<<l>> \o r.text.lines, r.text.nl)]

\* ------------------------------------------- extract_conflict_content
MAX_CONTEXT_LENGTH == 500
CONTEXT_LINES == 3

Excerpt(status, t, truncated) ==
  [status |-> status, lines |-> t.lines, nl |-> t.nl,
   truncated |-> truncated]
NoExcerpt == Excerpt("none", EmptyText, FALSE)
Panic == Excerpt("panic", EmptyText, FALSE)

\* ai.rs 68-74: index of the last line holding the start marker, and of
\* the last line holding the end marker and no start marker (0: None;
\* indices count from 1 here, from 0 in the source)
RECURSIVE LastMark(_, _, _)
LastMark(ls, k, marks) ==
  IF k = 0 THEN 0
  ELSE IF ls[k].mark \in marks THEN k
  ELSE LastMark(ls, k - 1, marks)

ConflictStart(ls) == LastMark(ls, Len(ls), {"start", "both"})
ConflictEnd(ls) == LastMark(ls, Len(ls), {"end"})

\* ai.rs 86: conflict_start.saturating_sub(CONTEXT_LINES), as the number
\* of lines skipped
WindowStart(s) == IF s - 1 >= CONTEXT_LINES THEN s - 1 - CONTEXT_LINES ELSE 0

\* ai.rs 87: (conflict_end + CONTEXT_LINES + 1).min(lines.len()), as the
\* number of the last line taken
WindowEnd(e, len) == Min((e - 1) + CONTEXT_LINES + 1, len)

\* ai.rs 78-82 and 94-98: the cap on the byte length
Truncate(t) ==
  IF Bytes(t) > MAX_CONTEXT_LENGTH
  THEN LET r == Take(t.lines, t.nl, MAX_CONTEXT_LENGTH)
       IN IF r.panic THEN Panic ELSE Excerpt("ok", r.text, TRUE)
  ELSE Excerpt("ok", t, FALSE)

extract_conflict_content(c) ==
  LET ls == c.lines
      s == ConflictStart(ls)
      e == ConflictEnd(ls)
  IN IF s = 0 \/ e = 0
     THEN Truncate(c)
     ELSE IF WindowStart(s) > WindowEnd(e, Len(ls))
     THEN Panic
     ELSE Truncate(Join(SubSeq(ls, WindowStart(s) + 1, WindowEnd(e, Len(ls)))))

\* --------------------------------------------- ConflictResolver helpers
\* the detail of one failed attempt (the anyhow error of try_resolve)
Detail(kind, status, body) == [kind |-> kind, status |-> status, body |-> body]
NoFailure == Detail("-", "-", "-")
MissingKey == Detail("no_api_key", "-", "-")

StatusCodes == {"401", "500"}

FailDetails ==
  {Detail("transport", "-", "-"), Detail("parse", "200", "not json"),
   Detail("no_choices", "200", "no choices")}
    \cup {Detail("status", c, "body of " \o c) : c \in StatusCodes}

\* mutant: the message counts the retries, not the attempts
AggregateError_retries(att, d) ==
  [attempts |-> att - 1, kind |-> d.kind, status |-> d.status,
   body |-> d.body]

\* ai.rs 172-173: "Failed to get AI resolution after {} attempts: {}"
AggregateError(att, d) ==
  [attempts |-> att, kind |-> d.kind, status |-> d.status, body |-> d.body]

NoError == AggregateError(0, NoFailure)

\* ai.rs 184: "Failed to get AI resolution"
GenericError == AggregateError(0, Detail("generic", "-", "-"))

\* the choices lists of a response that parses and is not empty
ChoiceLists ==
  UNION {[1..n -> Texts] : n \in 1..MaxChoices}

\* mutant: the last choice is taken
FirstChoice_last(ch) == ch[Len(ch)]

\* ai.rs 221-222: chat_response.choices.first()
FirstChoice(ch) == ch[1]

\* a ConflictFile; base_content is an Option
ConflictFile(path, our, their, hasBase, base) ==
  [path |-> path, our_content |-> our, their_content |-> their,
   has_base |-> hasBase, base_content |-> base]
NoConflictFile == ConflictFile("-", EmptyText, EmptyText, FALSE, EmptyText)

\* ai.rs 106-125: the user message
Description(status, path, our, their, hasBase, base) ==
  [status |-> status, path |-> path, our |-> our, their |-> their,
   has_base_section |-> hasBase, base |-> base]
NoDescription ==
  Description("none", "-", NoExcerpt, NoExcerpt, FALSE, NoExcerpt)

\* String::is_empty on a value of extract_conflict_content
IsEmptyString(x) == x.lines = <<>> /\ ~x.nl /\ ~x.truncated

\* ai.rs 108-110: Option::map(extract_conflict_content).unwrap_or_default()
BaseExcerpt(c) ==
  IF c.has_base THEN extract_conflict_content(c.base_content)
  ELSE Excerpt("ok", EmptyText, FALSE)

\* ai.rs 106-125: the three excerpts and the format! of the user message;
\* a panic of an extraction unwinds out of resolve_conflict
conflict_description(c) ==
  LET our == extract_conflict_content(c.our_content)
      their == extract_conflict_content(c.their_content)
      base == BaseExcerpt(c)
  IN IF "panic" \in {our.status, their.status, base.status}
     THEN Description("panic", c.path, NoExcerpt, NoExcerpt, FALSE, NoExcerpt)
     ELSE Description("ok", c.path, our, their, ~IsEmptyString(base), base)

\* mutant: the loop is not entered when no retry is permitted
LoopCond_strict(att, mr) == att < mr

LoopCond(att, mr) == att <= mr

\* mutant: gives up one attempt early
GiveUp_early(att, mr) == att >= mr

GiveUp(att, mr) == att > mr

\* mutant: exponent off by one
Backoff_offbyone(att) == BACKOFF_BASE_MS * (BACKOFF_FACTOR ^ (att - 1))

Backoff(att) == BACKOFF_BASE_MS * (BACKOFF_FACTOR ^ att)

\* ------------------------------------------------- handle_merge helpers
\* mutant: the API key is not looked at before the loop
UseAI_always == TRUE

UseAI == apiKey

\* mutant: conflicts are looked for whatever merge_branches returned
AfterMerge_always(hc) == "get_conflicts"

\* main.rs 96 and 150-154: the branch on the result of merge_branches
AfterMerge(hc) == IF hc THEN "get_conflicts" ELSE "done"

\* mutant: the loop is left at the first failure
NextIndex_break(idx, n, failed) == IF failed THEN n + 1 ELSE idx + 1

NextIndex(idx, n, failed) == idx + 1

Outcome(path, kind, stage, text, att, err) ==
  [path |-> path, kind |-> kind, stage |-> stage, text |-> text,
   attempts |-> att, err |-> err]

\* ------------------------------------------- the index conflict entries
\* A blob is what its bytes are to String::from_utf8: "utf8" is valid
\* UTF-8 without a zero byte, "utf8_nul" valid UTF-8 holding zero bytes,
\* "split" a multi-byte sequence with a zero byte inside it (C3 00 A9:
\* invalid as stored, valid once the zero byte is gone), "invalid" is
\* invalid with or without its zero bytes.  Absent is Option::None.
Blob(kind, v) == [kind |-> kind, v |-> v]
Absent == Blob("absent", 0)

\* a String made from blob v, stripped when zero bytes were removed
Str(v, stripped) == [v |-> v, stripped |-> stripped]
NoStr == Str(0, FALSE)

\* git.rs 192: content.iter().filter(|b| b != 0)
filtered(b) ==
  Blob(IF b.kind \in {"utf8_nul", "split"} THEN "utf8" ELSE b.kind, b.v)

\* git.rs 187-196: the closure try_get_content
try_get_content(b) ==
  IF filtered(b).kind = "utf8"
  THEN [ok |-> TRUE, s |-> Str(b.v, b.kind # "utf8")]
  ELSE [ok |-> FALSE, s |-> NoStr]

\* git2::IndexConflict: the path of the 'our' side and the three sides
IndexConflict(path, our, their, ancestor) ==
  [path |-> path, our |-> our, their |-> their, ancestor |-> ancestor]

\* git.rs 177-222: the loop of get_conflicts over index.conflicts()
RECURSIVE collect_conflicts(_)
collect_conflicts(es) ==
  IF es = <<>> THEN <<>>
  ELSE LET e == Head(es)
           rest == collect_conflicts(Tail(es))
           our_content == try_get_content(e.our)
           their_content == try_get_content(e.their)
           base_content == IF e.ancestor # Absent
                           THEN try_get_content(e.ancestor)
                           ELSE [ok |-> FALSE, s |-> NoStr]
       IN IF e.our = Absent \/ e.their = Absent THEN rest
          ELSE IF ~e.path.valid THEN rest
          ELSE IF ~our_content.ok THEN rest
          ELSE IF ~their_content.ok THEN rest
          ELSE <<ConflictFile(e.path.name, our_content.s, their_content.s,
                              base_content.ok, base_content.s)>> \o rest

\* ------------------------------------------------- the commit history
\* Commit k has the parents parents[k], all made before it, and the commit
\* time time[k]; tip[b] is the commit branch b points at.
History(parents, time, tip) == [parents |-> parents, time |-> time, tip |-> tip]

\* the commits reachable from commit c, c included
RECURSIVE Reach(_, _)
Reach(h, c) == {c} \cup UNION {Reach(h, q) : q \in h.parents[c]}

\* mutant: the commits of the source branch are not hidden
revwalk_nohide(h, pushed, hidden) == Reach(h, pushed)

\* git.rs 253-259: Revwalk with push(target_commit) and hide(source_commit)
revwalk(h, pushed, hidden) == Reach(h, pushed) \ Reach(h, hidden)

\* git.rs 262: Sort::TIME, the later commit time first; commits of equal
\* time come in an order the walk does not promise
Sort_TIME(h, seq) ==
  \A j, k \in 1..Len(seq) : j < k => h.time[seq[j]] >= h.time[seq[k]]

\* the orders in which a walk may yield the commits of S
Walks(h, S) ==
  {seq \in [1..Cardinality(S) -> S] :
     /\ \A j, k \in 1..Cardinality(S) : j # k => seq[j] # seq[k]
     /\ Sort_TIME(h, seq)}

\* ------------------------------------------------------ Settings::load
\* config.rs 22-30: the fields of Settings
SettingNames == {"openai_api_key", "model", "max_retries", "timeout_seconds"}

\* A source gives each setting a value or leaves it Unset; a value is
\* named after the source it comes from.  None is Option::None.
Unset == "unset"
None == "None"
Source(name, keys) ==
  [s \in SettingNames |-> IF s \in keys THEN name ELSE Unset]

\* config.rs 52-61 and 78-81: Settings::default as set_default
Defaults ==
  [s \in SettingNames |-> IF s = "openai_api_key" THEN None ELSE "default"]

\* the config crate: a source added later overrides the ones before it
add_source(lower, upper) ==
  [s \in SettingNames |-> IF upper[s] # Unset THEN upper[s] ELSE lower[s]]

\* what Settings::load reads: config.json of the current directory, the
\* file of the home directory, the GT_* variables, and OPENAI_API_KEY
\* (Unset, "" or a key)
Layers(cwd, home, gt, openai) ==
  [cwd |-> cwd, home |-> home, gt |-> gt, OPENAI_API_KEY |-> openai]

\* config.rs 76-97: the builder
build(l) == add_source(add_source(add_source(Defaults, l.cwd), l.home), l.gt)

\* config.rs 100-106: OPENAI_API_KEY is read when no source gave a key
with_openai_env(config, l) ==
  IF config["openai_api_key"] = None /\ l.OPENAI_API_KEY \notin {Unset, ""}
  THEN [config EXCEPT !["openai_api_key"] = l.OPENAI_API_KEY]
  ELSE config

\* ---------------------------------------- the pure functions, at rest
NoHistory == History(<<>>, <<>>, [b \in Branches |-> 0])
NoLayers == Layers(Source("-", {}), Source("-", {}), Source("-", {}), Unset)
NoSettings == [s \in SettingNames |-> Unset]

\* the range handle_merge is followed in needs no overflowing arithmetic
IdleBuild ==
  /\ overflow_checks = FALSE
  /\ wrapped = FALSE

IdleData ==
  /\ entries = <<>>
  /\ history = NoHistory
  /\ commits = <<>>
  /\ layers = NoLayers
  /\ settings = NoSettings
  /\ IdleBuild

\* ------------------------------------------------------------------ Init
Init ==
  /\ pc = "start"
  /\ target \in Names
  /\ source \in Names
  /\ apiKey \in BOOLEAN
  /\ max_retries \in 0..MaxRetriesBound
  /\ analysis \in Analyses
  /\ (target = source => analysis = UpToDate)
  /\ conflictPaths \in SUBSET Paths
  /\ excludedPaths \in SUBSET conflictPaths
  /\ conflictTxtBoth \in BOOLEAN
  /\ (ANALYSIS_NORMAL \notin analysis => ~conflictTxtBoth)
  /\ (analysis # Diverged => conflictPaths = {})
  /\ \E h \in Branches :
       repo = [head |-> h,
               tip |-> [b \in Branches |-> "c_" \o b],
               wt |-> TreeWt("c_" \o h),
               index |-> TreeIndex("c_" \o h),
               mergeHead |-> FALSE,
               mergeCommit |-> NoCommit]
  /\ preMerge = repo
  /\ has_conflicts = FALSE
  /\ conflicts = <<>>
  /\ i = 1
  /\ all_resolved = TRUE
  /\ attempts = 0
  /\ failures = 0
  /\ sleeps = <<>>
  /\ lastErr = "-"
  /\ resolution = "-"
  /\ inflight = 0
  /\ requests = 0
  /\ mergeCalls = 0
  /\ resolveCalls = <<>>
  /\ resolutions = <<>>
  /\ applyCalls = <<>>
  /\ abortCalls = <<>>
  /\ outcomes = <<>>
  /\ report = "-"
  /\ result = Running
  /\ failure = NoFailure
  /\ error = NoError
  /\ choices = <<>>
  /\ conflict = NoConflictFile
  /\ description = NoDescription
  /\ content = EmptyText
  /\ excerpt = NoExcerpt
  /\ IdleData

\* ---------------------------------------------------------- handle_merge
\* main.rs 85-91: both names are checked before anything is touched
VerifyBranches ==
  /\ pc = "start"
  /\ IF ~branch_exists(target)
     THEN /\ result' = Err("BranchNotFound", "target", target)
          /\ pc' = "done"
     ELSE IF ~branch_exists(source)
     THEN /\ result' = Err("BranchNotFound", "source", source)
          /\ pc' = "done"
     ELSE /\ result' = result
          /\ pc' = "merge"
  /\ UNCHANGED <<pureVars, target, source, apiKey, max_retries, analysis,
                 conflictPaths,
                 conflictTxtBoth, excludedPaths,
                 repo, preMerge, has_conflicts, conflicts, i,
                 all_resolved, attempts, failures, sleeps, lastErr, retVars,
                 resolution, inflight, requests, mergeCalls, resolveCalls,
                 resolutions, applyCalls, abortCalls, outcomes, report>>

MergeFrame ==
  UNCHANGED <<pureVars, target, source, apiKey, max_retries, analysis,
              conflictPaths,
              conflictTxtBoth, excludedPaths,
              conflicts, i, all_resolved, attempts,
              failures, sleeps, lastErr, retVars, resolution, inflight, requests,
              resolveCalls, resolutions, applyCalls, abortCalls, outcomes>>

\* git.rs 77: checkout_branch(target) fails, merge_branches returns Err
MergeBranchesCheckoutErr ==
  /\ pc = "merge"
  /\ mergeCalls' = mergeCalls + 1
  /\ result' = Err("MergeError", "checkout", target)
  /\ pc' = "done"
  /\ UNCHANGED <<repo, preMerge, has_conflicts, report>>
  /\ MergeFrame

\* git.rs 159-162: ANALYSIS_UP_TO_DATE
MergeBranchesUpToDate ==
  /\ pc = "merge"
  /\ ANALYSIS_NORMAL \notin analysis
  /\ ANALYSIS_UP_TO_DATE \in analysis
  /\ mergeCalls' = mergeCalls + 1
  /\ repo' = checkout_branch(repo, target)
  /\ preMerge' = repo'
  /\ has_conflicts' = FALSE
  /\ report' = "MergeSucceeded"
  /\ result' = Ok
  /\ pc' = AfterMerge(FALSE)
  /\ MergeFrame

\* git.rs 163-167: ANALYSIS_FASTFORWARD.  merge_analysis sets this flag
\* together with ANALYSIS_NORMAL (or with UNBORN, which the checkout of
\* git.rs 77 excludes), and the arm of git.rs 96 is tried first: no value
\* of Analyses enables this arm, so Next does not list it.
MergeBranchesFastForward ==
  /\ pc = "merge"
  /\ ANALYSIS_NORMAL \notin analysis
  /\ ANALYSIS_UP_TO_DATE \notin analysis
  /\ ANALYSIS_FASTFORWARD \in analysis
  /\ mergeCalls' = mergeCalls + 1
  /\ preMerge' = checkout_branch(repo, target)
  /\ repo' = fast_forward_merge(checkout_branch(repo, target),
                                repo.tip[source])
  /\ has_conflicts' = FALSE
  /\ report' = "MergeSucceeded"
  /\ result' = Ok
  /\ pc' = AfterMerge(FALSE)
  /\ MergeFrame

\* git.rs 96-158: ANALYSIS_NORMAL
MergeBranchesNormal ==
  /\ pc = "merge"
  /\ ANALYSIS_NORMAL \in analysis
  /\ mergeCalls' = mergeCalls + 1
  /\ LET r1 == checkout_branch(repo, target)
         r2 == repo_merge(r1, conflictPaths, excludedPaths)
         conflicted == conflictTxtBoth \/ index_has_conflicts(r2)
     IN /\ preMerge' = r1
        /\ \E fail \in {"none", "merge", "commit", "checkout_head"} :
             /\ fail \in {"commit", "checkout_head"} => ~conflicted
             /\ CASE fail = "merge" ->
                       /\ repo' = r1
                       /\ result' = Err("MergeError", "merge", source)
                       /\ pc' = "done"
                       /\ UNCHANGED <<has_conflicts, report>>
                  [] fail = "commit" ->
                       /\ repo' = r2
                       /\ result' = Err("MergeError", "commit", source)
                       /\ pc' = "done"
                       /\ UNCHANGED <<has_conflicts, report>>
                  [] fail = "checkout_head" ->
                       /\ repo' = create_merge_commit(r2, target, source)
                       /\ result' = Err("MergeError", "checkout_head", source)
                       /\ pc' = "done"
                       /\ UNCHANGED <<has_conflicts, report>>
                  [] fail = "none" /\ conflicted ->
                       /\ repo' = r2
                       /\ has_conflicts' = TRUE
                       /\ pc' = AfterMerge(TRUE)
                       /\ UNCHANGED <<result, report>>
                  [] fail = "none" /\ ~conflicted ->
                       /\ repo' =
                            checkout_head(
                              create_merge_commit(r2, target, source))
                       /\ has_conflicts' = FALSE
                       /\ report' = "MergeSucceeded"
                       /\ result' = Ok
                       /\ pc' = AfterMerge(FALSE)
  /\ MergeFrame

\* main.rs 98-107: enumerate (and print) the conflicts
GetConflicts ==
  /\ pc = "get_conflicts"
  /\ \E ok \in BOOLEAN :
       IF ok
       THEN /\ conflicts' = get_conflicts(repo)
            /\ pc' = "key_check"
            /\ result' = result
       ELSE /\ conflicts' = conflicts
            /\ pc' = "done"
            /\ result' = Err("GetConflictsError", "-", "-")
  /\ UNCHANGED <<pureVars, target, source, apiKey, max_retries, analysis,
                 conflictPaths,
                 conflictTxtBoth, excludedPaths,
                 repo, preMerge, has_conflicts, i,
                 all_resolved, attempts, failures, sleeps, lastErr, retVars,
                 resolution, inflight, requests, mergeCalls, resolveCalls,
                 resolutions, applyCalls, abortCalls, outcomes, report>>

\* main.rs 110-116: an API key is configured, start the loop
StartResolving ==
  /\ pc = "key_check"
  /\ UseAI
  /\ all_resolved' = TRUE
  /\ i' = 1
  /\ pc' = "loop"
  /\ UNCHANGED <<pureVars, target, source, apiKey, max_retries, analysis,
                 conflictPaths,
                 conflictTxtBoth, excludedPaths,
                 repo, preMerge, has_conflicts, conflicts,
                 attempts, failures, sleeps, lastErr, retVars, resolution, inflight,
                 requests, mergeCalls, resolveCalls, resolutions, applyCalls,
                 abortCalls, outcomes, report, result>>

\* mutant: a failure of abort_merge is ignored and the abort is reported
Abort_swallow(msg) ==
  \E ok \in BOOLEAN :
    /\ abortCalls' = Append(abortCalls, [known |-> Len(outcomes), ok |-> ok])
    /\ repo' = IF ok THEN abort_merge(repo) ELSE repo
    /\ report' = msg
    /\ result' = Ok
    /\ pc' = "done"

\* the call git.abort_merge()? and the two lines printed after it
Abort(msg) ==
  \E ok \in BOOLEAN :
    /\ abortCalls' = Append(abortCalls, [known |-> Len(outcomes), ok |-> ok])
    /\ IF ok
       THEN /\ repo' = abort_merge(repo)
            /\ report' = msg
            /\ result' = Ok
       ELSE /\ repo' = repo
            /\ report' = report
            /\ result' = Err("AbortError", "-", "-")
    /\ pc' = "done"

\* main.rs 145-149: no API key
AbortNoKey ==
  /\ pc = "key_check"
  /\ ~UseAI
  /\ Abort("AbortedNoKey")
  /\ UNCHANGED <<pureVars, target, source, apiKey, max_retries, analysis,
                 conflictPaths,
                 conflictTxtBoth, excludedPaths,
                 preMerge, has_conflicts, conflicts, i,
                 all_resolved, attempts, failures, sleeps, lastErr, retVars,
                 resolution, inflight, requests, mergeCalls, resolveCalls,
                 resolutions, applyCalls, outcomes>>

\* main.rs 117-119: next iteration calls resolve_conflict, or the loop ends
LoopHead ==
  /\ pc = "loop"
  /\ IF i <= Len(conflicts)
     THEN /\ resolveCalls' = Append(resolveCalls, conflicts[i].path)
          /\ attempts' = 0
          /\ failures' = 0
          /\ sleeps' = <<>>
          /\ lastErr' = "-"
          /\ resolution' = "-"
          /\ failure' = NoFailure
          /\ error' = NoError
          /\ choices' = <<>>
          /\ pc' = "while"
     ELSE /\ pc' = "decide"
          /\ UNCHANGED <<resolveCalls, attempts, failures, sleeps, lastErr,
                         retVars, resolution>>
  /\ UNCHANGED <<pureVars, target, source, apiKey, max_retries, analysis,
                 conflictPaths,
                 conflictTxtBoth, excludedPaths,
                 repo, preMerge, has_conflicts, conflicts, i,
                 all_resolved, inflight, requests, mergeCalls, resolutions,
                 applyCalls, abortCalls, outcomes, report, result>>

\* ----------------------------------------------------- resolve_conflict
ResolveFrame ==
  UNCHANGED <<pureVars, target, source, apiKey, max_retries, analysis,
              conflictPaths,
              conflictTxtBoth, excludedPaths,
              repo, preMerge, has_conflicts, conflicts, i,
              all_resolved, mergeCalls, resolveCalls, applyCalls, abortCalls,
              outcomes, report, result>>

\* ai.rs 161-166 and 187-201: one pass of the while loop up to the point
\* where try_resolve has sent the request (or has failed on the missing key)
Attempt ==
  /\ pc = "while"
  /\ IF LoopCond(attempts, max_retries)
     THEN /\ attempts' = attempts + 1
          /\ IF apiKey
             THEN /\ requests' = requests + 1
                  /\ inflight' = inflight + 1
                  /\ pc' = "await_response"
                  /\ UNCHANGED <<failures, lastErr, retVars, resolutions>>
             ELSE /\ failures' = failures + 1
                  /\ lastErr' = "no_api_key"
                  /\ failure' = MissingKey
                  /\ IF GiveUp(attempts', max_retries)
                     THEN /\ pc' = "ret_err"
                          /\ error' = AggregateError(attempts', MissingKey)
                          /\ resolutions' =
                               Append(resolutions,
                                      [ok |-> FALSE, text |-> "-"])
                     ELSE /\ pc' = "sleep"
                          /\ error' = error
                          /\ resolutions' = resolutions
                  /\ UNCHANGED <<requests, inflight, choices>>
     ELSE /\ lastErr' = "generic"
          /\ error' = GenericError
          /\ resolutions' = Append(resolutions, [ok |-> FALSE, text |-> "-"])
          /\ pc' = "ret_err"
          /\ UNCHANGED <<attempts, failures, requests, inflight, failure,
                         choices>>
  /\ UNCHANGED <<sleeps, resolution>>
  /\ ResolveFrame

\* ai.rs 204-224 and 167: 2xx, parsable, at least one choice
ResponseOk ==
  /\ pc = "await_response"
  /\ inflight' = inflight - 1
  /\ \E ch \in ChoiceLists :
       /\ choices' = ch
       /\ resolution' = FirstChoice(ch)
       /\ resolutions' =
            Append(resolutions, [ok |-> TRUE, text |-> FirstChoice(ch)])
  /\ pc' = "ret_ok"
  /\ UNCHANGED <<attempts, failures, sleeps, lastErr, error, failure,
                 requests>>
  /\ ResolveFrame

\* ai.rs 201-223 and 168-176: the attempt failed
ResponseFail ==
  /\ pc = "await_response"
  /\ inflight' = inflight - 1
  /\ failures' = failures + 1
  /\ choices' = <<>>
  /\ \E d \in FailDetails :
       /\ d.kind \in FailKinds
       /\ lastErr' = d.kind
       /\ failure' = d
       /\ IF GiveUp(attempts, max_retries)
          THEN /\ pc' = "ret_err"
               /\ error' = AggregateError(attempts, d)
               /\ resolutions' =
                    Append(resolutions, [ok |-> FALSE, text |-> "-"])
          ELSE /\ pc' = "sleep"
               /\ error' = error
               /\ resolutions' = resolutions
  /\ UNCHANGED <<attempts, sleeps, resolution, requests>>
  /\ ResolveFrame

\* ai.rs 178: exponential backoff before the next pass
Sleep ==
  /\ pc = "sleep"
  /\ sleeps' = Append(sleeps, Backoff(attempts))
  /\ pc' = "while"
  /\ UNCHANGED <<attempts, failures, lastErr, retVars, resolution, inflight,
                 requests, resolutions>>
  /\ ResolveFrame

\* ------------------------------------------- handle_merge, the loop body
\* the match arm consumes the Result of resolve_conflict: the error and
\* the parsed response are dropped when the arm is left (main.rs 119-134)
BodyFrame ==
  /\ failure' = NoFailure
  /\ error' = NoError
  /\ choices' = <<>>
  /\ UNCHANGED <<pureVars, target, source, apiKey, max_retries, analysis,
                 conflictPaths, conflictTxtBoth, excludedPaths,
                 preMerge, has_conflicts,
                 conflicts, attempts, failures, sleeps, lastErr, resolution,
                 inflight, requests, mergeCalls, resolveCalls, resolutions,
                 abortCalls, report, result>>

ApplyCall(path, text) ==
  [path |-> path, text |-> text, known |-> Len(resolutions),
   failedBefore |-> ~all_resolved]

\* main.rs 120-123: Ok(resolution), apply_resolution succeeds
ApplyOk ==
  /\ pc = "ret_ok"
  /\ applyCalls' = Append(applyCalls, ApplyCall(conflicts[i].path, resolution))
  /\ repo' = apply_resolution(repo, conflicts[i].path, resolution)
  /\ outcomes' = Append(outcomes,
       Outcome(conflicts[i].path, "Resolved", "applied", resolution,
               attempts, "-"))
  /\ all_resolved' = all_resolved
  /\ i' = NextIndex(i, Len(conflicts), FALSE)
  /\ pc' = "loop"
  /\ BodyFrame

\* mutant: a failed apply_resolution leaves all_resolved as it was
ApplyFail_ignore ==
  /\ pc = "ret_ok"
  /\ applyCalls' = Append(applyCalls, ApplyCall(conflicts[i].path, resolution))
  /\ \E pt \in ApplyFailPoints :
       /\ repo' = IF pt = "stage"
                  THEN WriteFile(repo, conflicts[i].path, resolution)
                  ELSE repo
       /\ outcomes' = Append(outcomes,
            Outcome(conflicts[i].path, "Failed", "apply", resolution,
                    attempts, pt))
  /\ all_resolved' = all_resolved
  /\ i' = NextIndex(i, Len(conflicts), TRUE)
  /\ pc' = "loop"
  /\ BodyFrame

\* main.rs 120-127: Ok(resolution), apply_resolution fails
ApplyFail ==
  /\ pc = "ret_ok"
  /\ applyCalls' = Append(applyCalls, ApplyCall(conflicts[i].path, resolution))
  /\ \E pt \in ApplyFailPoints :
       /\ repo' = IF pt = "stage"
                  THEN WriteFile(repo, conflicts[i].path, resolution)
                  ELSE repo
       /\ outcomes' = Append(outcomes,
            Outcome(conflicts[i].path, "Failed", "apply", resolution,
                    attempts, pt))
  /\ all_resolved' = FALSE
  /\ i' = NextIndex(i, Len(conflicts), TRUE)
  /\ pc' = "loop"
  /\ BodyFrame

\* mutant: the merge is aborted as soon as one file fails
ResolveErr_abort ==
  /\ pc = "ret_err"
  /\ outcomes' = Append(outcomes,
       Outcome(conflicts[i].path, "Failed", "resolve", "-", attempts, lastErr))
  /\ all_resolved' = FALSE
  /\ Abort("AbortedUnresolved")
  /\ UNCHANGED <<pureVars, target, source, apiKey, max_retries, analysis,
                 conflictPaths,
                 conflictTxtBoth, excludedPaths,
                 preMerge, has_conflicts, conflicts, i,
                 attempts, failures, sleeps, lastErr, retVars, resolution, inflight,
                 requests, mergeCalls, resolveCalls, resolutions, applyCalls>>

\* main.rs 130-133: Err(e) from resolve_conflict
ResolveErr ==
  /\ pc = "ret_err"
  /\ outcomes' = Append(outcomes,
       Outcome(conflicts[i].path, "Failed", "resolve", "-", attempts, lastErr))
  /\ all_resolved' = FALSE
  /\ i' = NextIndex(i, Len(conflicts), TRUE)
  /\ pc' = "loop"
  /\ UNCHANGED <<repo, applyCalls>>
  /\ BodyFrame

\* main.rs 137-139
AllResolved ==
  /\ pc = "decide"
  /\ all_resolved
  /\ report' = "AllResolved"
  /\ result' = Ok
  /\ pc' = "done"
  /\ UNCHANGED <<pureVars, target, source, apiKey, max_retries, analysis,
                 conflictPaths,
                 conflictTxtBoth, excludedPaths,
                 repo, preMerge, has_conflicts, conflicts, i,
                 all_resolved, attempts, failures, sleeps, lastErr, retVars,
                 resolution, inflight, requests, mergeCalls, resolveCalls,
                 resolutions, applyCalls, abortCalls, outcomes>>

\* main.rs 140-144
AbortUnresolved ==
  /\ pc = "decide"
  /\ ~all_resolved
  /\ Abort("AbortedUnresolved")
  /\ UNCHANGED <<pureVars, target, source, apiKey, max_retries, analysis,
                 conflictPaths,
                 conflictTxtBoth, excludedPaths,
                 preMerge, has_conflicts, conflicts, i,
                 all_resolved, attempts, failures, sleeps, lastErr, retVars,
                 resolution, inflight, requests, mergeCalls, resolveCalls,
                 resolutions, applyCalls, outcomes>>

Next ==
  \/ VerifyBranches
  \/ MergeBranchesCheckoutErr
  \/ MergeBranchesUpToDate
  \/ MergeBranchesNormal
  \/ GetConflicts
  \/ StartResolving
  \/ AbortNoKey
  \/ LoopHead
  \/ Attempt
  \/ ResponseOk
  \/ ResponseFail
  \/ Sleep
  \/ ApplyOk
  \/ ApplyFail
  \/ ResolveErr
  \/ AllResolved
  \/ AbortUnresolved

Spec == Init /\ [][Next]_vars

TypeOK ==
  /\ pc \in {"start", "merge", "get_conflicts", "key_check", "loop", "while",
             "await_response", "sleep", "ret_ok", "ret_err", "decide", "done",
             "extract", "extracted", "call", "panicked", "conflicts",
             "collected", "list", "listed", "load", "loaded"}
  /\ attempts \in 0..(MaxRetriesBound + 1)
  /\ inflight \in 0..1
  /\ i \in 1..(MaxFiles + 1)

\* ------------------------------------------------ the pure functions
\* everything handle_merge works on, at rest
IdleRepo ==
  /\ target = "main"
  /\ source = "feature"
  /\ analysis = Diverged
  /\ conflictPaths = {}
  /\ excludedPaths = {}
  /\ conflictTxtBoth = FALSE
  /\ repo = [head |-> "main",
             tip |-> [b \in Branches |-> "c_" \o b],
             wt |-> TreeWt("c_main"),
             index |-> TreeIndex("c_main"),
             mergeHead |-> FALSE,
             mergeCommit |-> NoCommit]
  /\ preMerge = repo
  /\ has_conflicts = FALSE
  /\ i = 1
  /\ all_resolved = TRUE
  /\ mergeCalls = 0
  /\ resolveCalls = <<>>
  /\ resolutions = <<>>
  /\ applyCalls = <<>>
  /\ abortCalls = <<>>
  /\ outcomes = <<>>
  /\ report = "-"
  /\ result = Running

\* the locals of resolve_conflict before its loop (ai.rs 158)
IdleResolver ==
  /\ attempts = 0
  /\ failures = 0
  /\ sleeps = <<>>
  /\ lastErr = "-"
  /\ resolution = "-"
  /\ inflight = 0
  /\ requests = 0
  /\ failure = NoFailure
  /\ error = NoError
  /\ choices = <<>>

Fills == {ShortLine, LongLine, WideLine, Line("none", 0, 1)}

UpTo2(S) == {X \in SUBSET S : Cardinality(X) <= 2}

\* line k of an input text: marker lines at S and E, first as line 1,
\* fill everywhere else
MkLine(k, S, E, fill, first) ==
  IF k \in S /\ k \in E THEN BothLine
  ELSE IF k \in S THEN StartLine
  ELSE IF k \in E THEN EndLine
  ELSE IF k = 1 THEN first
  ELSE fill

MkText(len, S, E, fill, first, nl) ==
  Text([k \in 1..len |-> MkLine(k, S, E, fill, first)], nl)

WellFormed(t) ==
  /\ t.lines = <<>> => ~t.nl
  /\ (t.lines # <<>> /\ ~t.nl) => t.lines[Len(t.lines)].n > 0

InitExtract ==
  /\ pc = "extract"
  /\ IdleRepo
  /\ IdleResolver
  /\ apiKey = FALSE
  /\ max_retries = 0
  /\ conflicts = <<>>
  /\ conflict = NoConflictFile
  /\ description = NoDescription
  /\ excerpt = NoExcerpt
  /\ IdleData
  /\ \E len \in 0..MaxLines :
       \E S \in UpTo2(1..len), E \in UpTo2(1..len) :
         \E fill \in Fills, first \in Fills, nl \in BOOLEAN :
           /\ content = MkText(len, S, E, fill, first, nl)
           /\ WellFormed(content)

\* ai.rs 57-99
Extract ==
  /\ pc = "extract"
  /\ excerpt' = extract_conflict_content(content)
  /\ pc' = "extracted"
  /\ UNCHANGED <<target, source, apiKey, max_retries, analysis, conflictPaths,
                 conflictTxtBoth, excludedPaths,
                 repo, preMerge, has_conflicts, conflicts, i,
                 all_resolved, attempts, failures, sleeps, lastErr,
                 resolution, inflight, requests, mergeCalls, resolveCalls,
                 resolutions, applyCalls, abortCalls, outcomes, report,
                 result, retVars, conflict, description, content, dataVars>>

NextExtract == Extract

SpecExtract == InitExtract /\ [][NextExtract]_vars

\* ------------------------------- resolve_conflict, called on its own
\* contents of the sides of a conflict
SampleTexts ==
  {Text(<<ShortLine>>, TRUE),
   Text(<<StartLine, ShortLine, EndLine>>, TRUE),
   Text(<<WideLine>>, FALSE)}

\* a present base may be the empty file
BaseTexts == SampleTexts \cup {EmptyText}

ConflictFiles ==
  {ConflictFile(p, our, their, FALSE, EmptyText) :
     p \in Paths, our \in SampleTexts, their \in SampleTexts}
  \cup
  UNION {{ConflictFile(p, our, their, TRUE, base) :
            p \in Paths, our \in SampleTexts, their \in SampleTexts} :
         base \in BaseTexts}

\* a ConflictResolver built from any Settings, and any ConflictFile
InitResolve ==
  /\ pc = "call"
  /\ IdleRepo
  /\ IdleResolver
  /\ apiKey \in BOOLEAN
  /\ max_retries \in 0..MaxRetriesBound
  /\ conflicts = <<>>
  /\ conflict \in ConflictFiles
  /\ description = NoDescription
  /\ content = EmptyText
  /\ excerpt = NoExcerpt
  /\ IdleData

\* ai.rs 101-159: everything resolve_conflict does before its loop
ResolveConflictCall ==
  /\ pc = "call"
  /\ description' = conflict_description(conflict)
  /\ pc' = IF description'.status = "panic" THEN "panicked" ELSE "while"
  /\ UNCHANGED <<target, source, apiKey, max_retries, analysis, conflictPaths,
                 conflictTxtBoth, excludedPaths,
                 repo, preMerge, has_conflicts, conflicts, i,
                 all_resolved, attempts, failures, sleeps, lastErr,
                 resolution, inflight, requests, mergeCalls, resolveCalls,
                 resolutions, applyCalls, abortCalls, outcomes, report,
                 result, retVars, conflict, content, excerpt, dataVars>>

NextResolve ==
  \/ ResolveConflictCall
  \/ Attempt
  \/ ResponseOk
  \/ ResponseFail
  \/ Sleep

SpecResolve == InitResolve /\ [][NextResolve]_vars

\* ------------------------------------------------------ state predicates
Done == pc = "done"

\* get_conflicts has returned its list
Enumerated ==
  /\ has_conflicts
  /\ pc # "get_conflicts"
  /\ result.kind # "GetConflictsError"

N == Len(conflicts)

SomeFailed == \E k \in 1..Len(outcomes) : outcomes[k].kind = "Failed"

SomeRetriesExhausted ==
  \E k \in 1..Len(outcomes) :
    outcomes[k].kind = "Failed" /\ outcomes[k].stage = "resolve"

Aborted == report \in {"AbortedNoKey", "AbortedUnresolved"}

HoldsResolution(r, p) ==
  r.wt[p].kind = "resolution" \/ r.index[p].c.kind = "resolution"

Returned == pc \in {"ret_ok", "ret_err"}

RECURSIVE BackoffTotal(_)
BackoffTotal(n) == IF n = 0 THEN 0 ELSE 500 * (2 ^ n) + BackoffTotal(n - 1)

\* ---------------------------------------------------------------- claims

\* C1: when some file ended Failed and the merge was aborted, no path of
\* the working tree or the index holds a resolution text of that run.
C1_NoResolutionPersistsAfterAbort ==
  (Done /\ SomeFailed /\ report = "AbortedUnresolved")
    => \A p \in Paths : ~HoldsResolution(repo, p)

\* C2: apply_resolution is only called once resolve_conflict has returned
\* for every conflicted file and every one of these results is a success.
C2_ApplyOnlyAfterAllResolved ==
  \A k \in 1..Len(applyCalls) :
    /\ applyCalls[k].known = N
    /\ ~applyCalls[k].failedBefore
    /\ \A j \in 1..Len(resolutions) : resolutions[j].ok

\* C3: when handle_merge ends in Aborted, working tree, index and
\* merge-in-progress state equal what they were right before the merge.
C3_AbortRestoresPreMergeState ==
  (Done /\ Aborted)
    => /\ repo.wt = preMerge.wt
       /\ repo.index = preMerge.index
       /\ repo.mergeHead = preMerge.mergeHead

\* C4: with an API key, N enumerated conflicts, N successful resolutions
\* and N successful applies, handle_merge ends in Completed-via-AI, never
\* calls abort_merge, and every path holds its resolution text in the
\* working tree and is staged with it.
C4_AllResolvedAllApplied ==
  (/\ Done /\ Enumerated /\ apiKey
   /\ Len(resolutions) = N
   /\ \A k \in 1..Len(resolutions) : resolutions[k].ok
   /\ Len(outcomes) = N
   /\ \A k \in 1..Len(outcomes) : outcomes[k].kind = "Resolved")
    => /\ report = "AllResolved"
       /\ result.status = "Ok"
       /\ abortCalls = <<>>
       /\ \A k \in 1..N :
            /\ repo.wt[conflicts[k].path].kind = "resolution"
            /\ repo.wt[conflicts[k].path].v = resolutions[k].text
            /\ repo.index[conflicts[k].path].st = "staged"
            /\ repo.index[conflicts[k].path].c = repo.wt[conflicts[k].path]

W_C4 ==
  /\ Done /\ Enumerated /\ apiKey /\ N >= 2
  /\ Len(outcomes) = N
  /\ \A k \in 1..Len(outcomes) : outcomes[k].kind = "Resolved"
  /\ report = "AllResolved"

\* C5: when some file failed after exhausting its retries, abort_merge is
\* called exactly once, only after all N outcomes exist, and all N outcomes
\* are reported in order, failed ones with their reason.
C5_AbortOnceAfterAllOutcomes ==
  /\ apiKey => \A k \in 1..Len(abortCalls) : abortCalls[k].known = N
  /\ (Done /\ Enumerated /\ apiKey /\ SomeRetriesExhausted)
       => /\ Len(abortCalls) = 1
          /\ Len(outcomes) = N
          /\ \A k \in 1..Len(outcomes) :
               /\ outcomes[k].path = conflicts[k].path
               /\ outcomes[k].kind = "Failed" => outcomes[k].err # "-"
               /\ outcomes[k].kind = "Resolved" => outcomes[k].text # "-"

W_C5 ==
  /\ Done /\ Enumerated /\ apiKey /\ N >= 2
  /\ Len(abortCalls) = 1
  /\ outcomes[1].kind = "Failed" /\ outcomes[1].stage = "resolve"
  /\ outcomes[N].kind = "Resolved"

\* C6: resolve_conflict is called exactly once per enumerated conflict, in
\* the order of get_conflicts, whatever the earlier files' outcomes were,
\* and at most one request is outstanding at any time.
C6_EveryFileAttemptedInOrder ==
  /\ Len(resolveCalls) <= N
  /\ \A k \in 1..Len(resolveCalls) : resolveCalls[k] = conflicts[k].path
  /\ (Enumerated /\ apiKey /\ pc \in {"decide", "done"})
       => Len(resolveCalls) = N
  /\ inflight <= 1

W_C6 ==
  /\ Done /\ N >= 2
  /\ Len(resolveCalls) = N
  /\ outcomes[1].kind = "Failed"

\* C7: when target or source is not an existing local branch, handle_merge
\* returns a branch-not-found error naming the failing branch (target
\* first), merge_branches is never called and the repository is untouched.
C7_BranchNotFoundBeforeMerge ==
  (target \notin Branches \/ source \notin Branches)
    => /\ mergeCalls = 0
       /\ repo = preMerge
       /\ pc \in {"start", "done"}
       /\ Done => /\ result.status = "Err"
                  /\ result.kind = "BranchNotFound"
                  /\ IF target \notin Branches
                     THEN result.role = "target" /\ result.name = target
                     ELSE result.role = "source" /\ result.name = source

W_C7 ==
  /\ Done
  /\ target \in Branches /\ source \notin Branches
  /\ result.kind = "BranchNotFound"

\* C8: with conflicts and no API key, resolve_conflict and apply_resolution
\* are never called, no request is sent, and abort_merge is called exactly
\* once, after which handle_merge reports the merge as aborted.
C8_NoKeyDetectedUpFront ==
  /\ ~apiKey => resolveCalls = <<>> /\ applyCalls = <<>> /\ requests = 0
  /\ (Done /\ Enumerated /\ ~apiKey)
       => /\ Len(abortCalls) = 1
          /\ abortCalls[1].ok => (report = "AbortedNoKey" /\ result.status = "Ok")

W_C8 ==
  /\ Done /\ Enumerated /\ ~apiKey /\ N >= 1
  /\ report = "AbortedNoKey"

\* C9: resolve_conflict makes exactly 1 + min(failures, max_retries)
\* attempts: it returns at the first success, and gives up after exactly
\* max_retries + 1 failed attempts.
C9_AttemptCount ==
  /\ attempts <= max_retries + 1
  /\ Returned => attempts = 1 + Min(failures, max_retries)
  /\ pc = "ret_ok" => failures = attempts - 1
  /\ pc = "ret_err" => failures = max_retries + 1

W_C9 ==
  /\ pc = "ret_err"
  /\ max_retries >= 2
  /\ failures = max_retries + 1

\* C10: there is exactly one sleep before each retry and no other; the
\* sleep before retry n is 500ms * 2^n; after max_retries + 1 failures
\* the total is the sum of 500ms * 2^n for n = 1..max_retries.
C10_BackoffSchedule ==
  /\ \A n \in 1..Len(sleeps) : sleeps[n] = 500 * (2 ^ n)
  /\ (Returned \/ pc = "await_response") => Len(sleeps) = attempts - 1
  /\ pc = "ret_err" => /\ Len(sleeps) = max_retries
                       /\ Sum(sleeps) = BackoffTotal(max_retries)

W_C10 ==
  /\ pc = "ret_err"
  /\ max_retries >= 2
  /\ Len(sleeps) = 2
  /\ sleeps[1] = 1000 /\ sleeps[2] = 2000

\* ------------------------------------------ extract_conflict_content
Extracted == pc = "extracted"

HasStart(t) ==
  \E k \in 1..Len(t.lines) : t.lines[k].mark \in {"start", "both"}
HasEnd(t) ==
  \E k \in 1..Len(t.lines) : t.lines[k].mark \in {"end", "both"}
HasBoth(t) == HasStart(t) /\ HasEnd(t)

\* the two indices the scan of ai.rs 68-74 ends with (0: None)
FoundStart == ConflictStart(content.lines)
FoundEnd == ConflictEnd(content.lines)

ExcerptText == Text(excerpt.lines, excerpt.nl)

\* the lines of a and of b agree, up to a cut of the last line of a
RECURSIVE IsPrefix(_, _)
IsPrefix(a, b) ==
  \/ a = <<>>
  \/ /\ b # <<>>
     /\ Head(a).mark = Head(b).mark /\ Head(a).w = Head(b).w
     /\ IF Len(a) = 1 THEN Head(a).n <= Head(b).n
        ELSE Head(a).n = Head(b).n /\ IsPrefix(Tail(a), Tail(b))

\* the value is the first 500 characters of t and the truncation marker
First500(t) ==
  /\ excerpt.status = "ok"
  /\ excerpt.truncated
  /\ Chars(ExcerptText) = 500
  /\ IsPrefix(excerpt.lines, t.lines)

\* the value is t itself
Unchanged(t) ==
  /\ excerpt.status = "ok"
  /\ ~excerpt.truncated
  /\ ExcerptText = t

\* the lines max(0, s - 3) .. min(e + 3, last) of content, joined by "\n"
JoinedWindow ==
  Join(SubSeq(content.lines,
              IF FoundStart > 3 THEN FoundStart - 3 ELSE 1,
              Min(FoundEnd + 3, Len(content.lines))))

\* the excerpt holds a whole line with the start marker and a whole line
\* with the end marker
IncludesMarkerLines ==
  /\ excerpt.status = "ok"
  /\ \E k \in 1..Len(excerpt.lines) :
       excerpt.lines[k].mark \in {"start", "both"} /\ ~excerpt.lines[k].cut
  /\ \E k \in 1..Len(excerpt.lines) :
       excerpt.lines[k].mark \in {"end", "both"} /\ ~excerpt.lines[k].cut

\* the lines of the excerpt are consecutive lines of content
ContiguousRange ==
  \E o \in 0..Len(content.lines) :
    /\ o + Len(excerpt.lines) <= Len(content.lines)
    /\ IsPrefix(excerpt.lines,
                SubSeq(content.lines, o + 1, Len(content.lines)))

\* C15: for a text that lacks a start marker or lacks an end marker, the
\* value is the first 500 characters plus the truncation marker when the
\* text has more than 500 characters, and the text unchanged otherwise.
C15_NoMarkersCapAt500Chars ==
  (Extracted /\ ~HasBoth(content)) =>
    IF Chars(content) > 500 THEN First500(content) ELSE Unchanged(content)

\* C16: for a text with both markers, the excerpt includes both marker
\* lines and its lines are a contiguous sub-range of the original lines.
C16_MarkerLinesAlwaysIncluded ==
  (Extracted /\ HasBoth(content)) =>
    IncludesMarkerLines /\ ContiguousRange

\* C17: when both markers are found, the window start..end is a valid
\* sub-range of the lines, start <= end <= line count, also when the
\* start marker comes after the end marker.
C17_WindowIsValidRange ==
  (Extracted /\ FoundStart > 0 /\ FoundEnd > 0) =>
    /\ WindowStart(FoundStart) <= WindowEnd(FoundEnd, Len(content.lines))
    /\ WindowEnd(FoundEnd, Len(content.lines)) <= Len(content.lines)

\* C18: a text of at most 500 characters with the start marker before the
\* end marker and every line within 3 lines of the markers is returned
\* unchanged, a final newline included.
C18_ShortConflictUnchanged ==
  (/\ Extracted
   /\ Chars(content) <= 500
   /\ FoundStart > 0 /\ FoundStart < FoundEnd
   /\ FoundStart <= 4
   /\ Len(content.lines) <= FoundEnd + 3) => Unchanged(content)

\* C19: when both markers are found at lines s and e, the value is the
\* lines max(0, s - 3) .. min(e + 3, last) joined by newlines, cut to the
\* first 500 characters plus the truncation marker only when that is
\* longer than 500 characters.
C19_WindowThenCap ==
  (Extracted /\ FoundStart > 0 /\ FoundEnd > 0) =>
    IF Chars(JoinedWindow) > 500
    THEN First500(JoinedWindow)
    ELSE Unchanged(JoinedWindow)

\* ------------------------------------------------------ resolve_conflict
\* C11: with max_retries = 0 and an API key, a failing first attempt, of
\* whatever kind, ends the call with an error after exactly one request
\* and without a backoff sleep.
C11_ZeroRetriesOneRequest ==
  (apiKey /\ max_retries = 0) =>
    /\ sleeps = <<>>
    /\ requests <= 1
    /\ failures >= 1 => pc = "ret_err"
    /\ pc = "ret_err" =>
         /\ requests = 1
         /\ attempts = 1
         /\ failures = 1
         /\ error.kind \in FailKinds

W_C11 ==
  /\ pc = "ret_err"
  /\ apiKey
  /\ max_retries = 0
  /\ requests = 1
  /\ failure = Detail("status", "401", "body of 401")

\* C12: without an API key, resolve_conflict fails on the credential check
\* exactly once, sends no request and does not sleep, whatever
\* max_retries is.
C12_MissingKeyNotRetried ==
  (~apiKey /\ pc \in {"while", "sleep", "ret_err"}) =>
    /\ requests = 0
    /\ failures <= 1
    /\ sleeps = <<>>
    /\ failures = 1 => pc = "ret_err"

C14_FirstChoiceOfFirstSuccess ==
  /\ pc = "ret_ok" =>
       /\ Len(choices) >= 1
       /\ resolution = choices[1]
       /\ failures = attempts - 1
       /\ requests = attempts
  /\ (apiKey /\ pc \in {"sleep", "ret_err"}) =>
       /\ failures = attempts
       /\ pc = "ret_err" <=> attempts > max_retries

W_C14 ==
  /\ pc = "ret_ok"
  /\ Len(choices) = 2
  /\ choices[1] # choices[2]
  /\ resolution = choices[1]
  /\ attempts = 2
  /\ lastErr = "no_choices"

\* C20: the user message holds the path and the excerpts of our_content
\* and their_content, and it holds the "Base version:" section, with the
\* excerpt of base_content, exactly when base_content is Some.
C20_BaseSectionIffBasePresent ==
  description.status = "ok" =>
    /\ description.path = conflict.path
    /\ description.our = extract_conflict_content(conflict.our_content)
    /\ description.their = extract_conflict_content(conflict.their_content)
    /\ description.has_base_section <=> conflict.has_base
    /\ conflict.has_base =>
         description.base = extract_conflict_content(conflict.base_content)

\* ---------------------------------------------------------- handle_merge
\* merge_branches has returned Ok(false)
NoConflictsReturned ==
  mergeCalls = 1 /\ ~has_conflicts /\ result.kind # "MergeError"

Terminal ==
  IF result.status = "Err" THEN "Failed"
  ELSE IF abortCalls # <<>> THEN "Aborted"
  ELSE IF report = "AllResolved" THEN "CompletedViaAI"
  ELSE IF analysis = UpToDate THEN "NoOp"
  ELSE IF repo.mergeCommit = NoCommit THEN "FastForwarded"
  ELSE "Merged"

\* C22: the value handle_merge returns identifies the terminal state.
\* An up-to-date run returns Ok(()), a value without payload; a value that
\* identifies the state is therefore Ok(()) for NoOp alone, and a run
\* ending Merged, FastForwarded, CompletedViaAI or Aborted returns
\* something else.
C22_ResultIdentifiesTerminalState ==
  Done =>
    /\ Terminal = "NoOp" => result = Ok
    /\ Terminal \in {"FastForwarded", "Merged", "CompletedViaAI", "Aborted"}
         => result # Ok

\* abort_merge was called and returned an error
AbortFailed == \E k \in 1..Len(abortCalls) : ~abortCalls[k].ok

\* C23: when abort_merge fails, on the no-key path or after a failed
\* resolution, handle_merge stops and returns that failure; it reports
\* neither an abort nor a success.
C23_AbortFailureIsReturned ==
  AbortFailed =>
    /\ pc = "done"
    /\ Len(abortCalls) = 1
    /\ result.status = "Err"
    /\ result.kind = "AbortError"
    /\ report \notin {"AbortedNoKey", "AbortedUnresolved", "AllResolved",
                      "MergeSucceeded"}

W_C23 ==
  /\ AbortFailed
  /\ pc = "done"
  /\ SomeFailed
  /\ Len(outcomes) = 2
  /\ result.kind = "AbortError"

\* apply_resolution returned an error for some file
ApplyFailed ==
  \E k \in 1..Len(outcomes) :
    outcomes[k].kind = "Failed" /\ outcomes[k].stage = "apply"

\* every call of resolve_conflict returned a resolution
EveryResolveSucceeded ==
  /\ Len(outcomes) = N
  /\ \A k \in 1..Len(outcomes) : outcomes[k].stage # "resolve"

\* C24: when writing or staging a resolution fails for any file,
\* abort_merge is called and the run does not end as completed by AI,
\* also when every resolve_conflict call succeeded.
C24_ApplyFailureAborts ==
  (Done /\ ApplyFailed) =>
    /\ Len(abortCalls) = 1
    /\ abortCalls[1].known = N
    /\ report # "AllResolved"
    /\ report # "MergeSucceeded"

W_C24 ==
  /\ Done
  /\ ApplyFailed
  /\ EveryResolveSucceeded
  /\ N = 2
  /\ outcomes[1].stage = "applied"
  /\ outcomes[2].err = "stage"
  /\ report = "AbortedUnresolved"

\* ------------------------------------------------------- merge_branches
\* merge_branches has returned Ok(_)
MergeReturned == mergeCalls = 1 /\ result.kind # "MergeError"

\* C25: when the target tip is an ancestor of the source tip,
\* merge_branches fast-forwards: the target branch points at the source
\* commit, no merge commit is made, and it returns 'no conflicts'.
C25_FastForwardMovesRef ==
  (MergeReturned /\ analysis = FastForwardPossible) =>
    /\ repo.tip[target] = preMerge.tip[source]
    /\ repo.mergeCommit = NoCommit
    /\ ~has_conflicts

\* C26: after a normal merge that returned 'no conflicts', HEAD of the
\* target branch is a new merge commit whose parents are the pre-merge
\* target tip and the source tip, in that order, and whose tree is the
\* merged index.
C26_MergeCommitParentsAndTree ==
  (MergeReturned /\ analysis = Diverged /\ ~has_conflicts) =>
    /\ repo.head = target
    /\ repo.tip[target] = "c_merge"
    /\ repo.tip[target] \notin {preMerge.tip[target], preMerge.tip[source]}
    /\ repo.mergeCommit.parents
         = <<preMerge.tip[target], preMerge.tip[source]>>
    /\ repo.mergeCommit.tree = repo_merge(preMerge, {}, {}).index

W_C26 ==
  /\ MergeReturned
  /\ analysis = Diverged
  /\ ~has_conflicts
  /\ Done
  /\ repo.mergeCommit # NoCommit
  /\ preMerge.tip[target] # preMerge.tip[source]

\* abort_merge was called and returned Ok
AbortSucceeded ==
  /\ abortCalls # <<>>
  /\ abortCalls[Len(abortCalls)].ok

\* C28: after abort_merge has succeeded, from whatever state the merge in
\* progress was in, MERGE_HEAD no longer exists.
C28_AbortRemovesMergeHead ==
  AbortSucceeded => ~repo.mergeHead

W_C28 ==
  /\ AbortSucceeded
  /\ Done
  /\ preMerge.mergeHead = FALSE
  /\ ~repo.mergeHead
  /\ \E p \in Paths : HoldsResolution(repo, p)
  /\ \E p \in Paths : repo.index[p].st = "conflict"

\* --------------------------------------------------------- get_conflicts
MaxEntries == 2

OurBlobs ==
  {Absent} \cup {Blob(k, 1) : k \in {"utf8", "utf8_nul", "split", "invalid"}}
TheirBlobs == {Absent} \cup {Blob(k, 2) : k \in {"utf8", "invalid"}}
AncestorBlobs ==
  {Absent} \cup {Blob(k, 3) : k \in {"utf8", "split", "invalid"}}

\* the conflict entries of an index, but for their paths: any two sides
\* without ancestor, two text sides with any ancestor, and an entry whose
\* path is not UTF-8
EntryShapes ==
  {IndexConflict(TRUE, our, their, Absent) :
     our \in OurBlobs, their \in TheirBlobs}
  \cup {IndexConflict(TRUE, Blob("utf8", 1), Blob("utf8", 2), anc) :
          anc \in AncestorBlobs}
  \cup {IndexConflict(FALSE, Blob("utf8", 1), Blob("utf8", 2), Absent)}

\* index.conflicts() yields the entries in path order: entry k has path k
InitConflicts ==
  /\ pc = "conflicts"
  /\ IdleRepo
  /\ IdleResolver
  /\ apiKey = FALSE
  /\ max_retries = 0
  /\ conflicts = <<>>
  /\ conflict = NoConflictFile
  /\ description = NoDescription
  /\ content = EmptyText
  /\ excerpt = NoExcerpt
  /\ history = NoHistory
  /\ commits = <<>>
  /\ layers = NoLayers
  /\ settings = NoSettings
  /\ IdleBuild
  /\ \E n \in 0..MaxEntries :
       \E f \in [1..n -> EntryShapes] :
         entries = [k \in 1..n |->
                      IndexConflict([valid |-> f[k].path, name |-> k],
                                    f[k].our, f[k].their, f[k].ancestor)]

\* git.rs 173-225: get_conflicts; repo.index(), index.conflicts() and the
\* iterator may fail
GetConflictsCall ==
  /\ pc = "conflicts"
  /\ \E ok \in BOOLEAN :
       IF ok
       THEN /\ conflicts' = collect_conflicts(entries)
            /\ result' = Ok
       ELSE /\ conflicts' = conflicts
            /\ result' = Err("GetConflictsError", "-", "-")
  /\ pc' = "collected"
  /\ UNCHANGED <<target, source, apiKey, max_retries, analysis, conflictPaths,
                 conflictTxtBoth, excludedPaths,
                 repo, preMerge, has_conflicts, i,
                 all_resolved, attempts, failures, sleeps, lastErr,
                 resolution, inflight, requests, mergeCalls, resolveCalls,
                 resolutions, applyCalls, abortCalls, outcomes, report,
                 retVars, pureVars>>

NextConflicts == GetConflictsCall

SpecConflicts == InitConflicts /\ [][NextConflicts]_vars

\* String::from_utf8 accepts the bytes of the blob as they are stored
ValidText(b) == b.kind \in {"utf8", "utf8_nul"}

\* the entry has both sides, and path and contents are valid text
Eligible(e) ==
  /\ e.our # Absent
  /\ e.their # Absent
  /\ e.path.valid
  /\ ValidText(e.our)
  /\ ValidText(e.their)

\* the entry get_conflicts made the file of path name from
EntryAt(name) ==
  CHOOSE e \in {entries[k] : k \in 1..Len(entries)} : e.path.name = name

Collected == pc = "collected" /\ result = Ok

\* C27: get_conflicts returns exactly the conflict entries that have an
\* 'our' and a 'their' side and whose path and contents are valid text,
\* in index order, each with a base_content only when its ancestor exists
\* and is valid text.
C27_ExactlyTheTextConflicts ==
  Collected =>
    /\ [k \in 1..Len(conflicts) |-> conflicts[k].path]
         = [k \in 1..Len(SelectSeq(entries, Eligible)) |->
              SelectSeq(entries, Eligible)[k].path.name]
    /\ \A k \in 1..Len(conflicts) :
         conflicts[k].has_base =>
           /\ EntryAt(conflicts[k].path).ancestor # Absent
           /\ ValidText(EntryAt(conflicts[k].path).ancestor)

\* ---------------------------------------------------- list_unique_commits
MaxCommits == 3
CommitTimes == 0..2

\* a history of n commits: parents are earlier commits and are not
\* younger than their children, both branches point at some commit
Ancestry(h) ==
  \A k \in 1..Len(h.parents) : h.parents[k] \subseteq 1..(k - 1)

Chronological(h) ==
  /\ h.time[1] = 0
  /\ \A k \in 1..Len(h.parents) :
       \A q \in h.parents[k] : h.time[q] <= h.time[k]

InitList ==
  /\ pc = "list"
  /\ \E n \in 1..MaxCommits :
       \E ps \in [1..n -> SUBSET (1..(n - 1))], ts \in [1..n -> CommitTimes],
          tip \in [Branches -> 1..n] :
         /\ Ancestry(History(ps, ts, tip))
         /\ Chronological(History(ps, ts, tip))
         /\ history = History(ps, ts, tip)
  /\ target \in Names
  /\ source \in Names
  /\ analysis = Diverged
  /\ conflictPaths = {}
  /\ excludedPaths = {}
  /\ conflictTxtBoth = FALSE
  /\ repo = [head |-> "main",
             tip |-> [b \in Branches |-> "c_" \o b],
             wt |-> TreeWt("c_main"),
             index |-> TreeIndex("c_main"),
             mergeHead |-> FALSE,
             mergeCommit |-> NoCommit]
  /\ preMerge = repo
  /\ has_conflicts = FALSE
  /\ i = 1
  /\ all_resolved = TRUE
  /\ mergeCalls = 0
  /\ resolveCalls = <<>>
  /\ resolutions = <<>>
  /\ applyCalls = <<>>
  /\ abortCalls = <<>>
  /\ outcomes = <<>>
  /\ report = "-"
  /\ result = Running
  /\ IdleResolver
  /\ apiKey = FALSE
  /\ max_retries = 0
  /\ conflicts = <<>>
  /\ conflict = NoConflictFile
  /\ description = NoDescription
  /\ content = EmptyText
  /\ excerpt = NoExcerpt
  /\ entries = <<>>
  /\ commits = <<>>
  /\ layers = NoLayers
  /\ settings = NoSettings
  /\ IdleBuild

\* git.rs 242-277: list_unique_commits; the walk and find_commit may fail
ListUniqueCommits ==
  /\ pc = "list"
  /\ IF ~branch_exists(target)
     THEN /\ result' = Err("BranchNotFound", "target", target)
          /\ commits' = commits
     ELSE IF ~branch_exists(source)
     THEN /\ result' = Err("BranchNotFound", "source", source)
          /\ commits' = commits
     ELSE \E ok \in BOOLEAN :
            IF ok
            THEN /\ commits' \in Walks(history,
                                       revwalk(history, history.tip[target],
                                               history.tip[source]))
                 /\ result' = Ok
            ELSE /\ commits' = commits
                 /\ result' = Err("RevwalkError", "-", "-")
  /\ pc' = "listed"
  /\ UNCHANGED <<target, source, apiKey, max_retries, analysis, conflictPaths,
                 conflictTxtBoth, excludedPaths,
                 repo, preMerge, has_conflicts, conflicts, i,
                 all_resolved, attempts, failures, sleeps, lastErr,
                 resolution, inflight, requests, mergeCalls, resolveCalls,
                 resolutions, applyCalls, abortCalls, outcomes, report,
                 retVars, conflict, description, content, excerpt, entries,
                 history, layers, settings, buildVars>>

NextList == ListUniqueCommits

SpecList == InitList /\ [][NextList]_vars

Listed == pc = "listed"

\* the commits reachable from the tip of branch b
ReachableFrom(b) == Reach(history, history.tip[b])

InitLoad ==
  /\ pc = "load"
  /\ IdleRepo
  /\ IdleResolver
  /\ apiKey = FALSE
  /\ max_retries = 0
  /\ conflicts = <<>>
  /\ conflict = NoConflictFile
  /\ description = NoDescription
  /\ content = EmptyText
  /\ excerpt = NoExcerpt
  /\ entries = <<>>
  /\ history = NoHistory
  /\ commits = <<>>
  /\ settings = NoSettings
  /\ IdleBuild
  /\ \E c \in SUBSET SettingNames, h \in SUBSET SettingNames,
        g \in SUBSET SettingNames, o \in {Unset, "", "OPENAI_API_KEY"} :
       layers = Layers(Source("config.json", c), Source("home", h),
                       Source("GT", g), o)

\* config.rs 68-114: Settings::load
Load ==
  /\ pc = "load"
  /\ LET config == with_openai_env(build(layers), layers)
     IN IF config["openai_api_key"] = None
        THEN /\ settings' = settings
             /\ result' = Err("MissingApiKey", "-", "-")
        ELSE /\ settings' = config
             /\ result' = Ok
  /\ pc' = "loaded"
  /\ UNCHANGED <<target, source, apiKey, max_retries, analysis, conflictPaths,
                 conflictTxtBoth, excludedPaths,
                 repo, preMerge, has_conflicts, conflicts, i,
                 all_resolved, attempts, failures, sleeps, lastErr,
                 resolution, inflight, requests, mergeCalls, resolveCalls,
                 resolutions, applyCalls, abortCalls, outcomes, report,
                 retVars, conflict, description, content, excerpt, entries,
                 history, commits, layers, buildVars>>

NextLoad == Load

SpecLoad == InitLoad /\ [][NextLoad]_vars

Loaded == pc = "loaded" /\ result = Ok

\* the values the environment gives setting s
FromEnvironment(s) ==
  ({layers.gt[s]} \ {Unset})
  \cup (IF s = "openai_api_key"
        THEN {layers.OPENAI_API_KEY} \ {Unset, ""}
        ELSE {})

\* the values the config files give setting s
FromConfigFile(s) == {layers.cwd[s], layers.home[s]} \ {Unset}

\* C30: Settings::load gives every setting the value of the environment
\* (GT_* or OPENAI_API_KEY) when the environment has one, else the value of
\* a config file when a file has one, else the default; OPENAI_API_KEY in
\* particular goes before a key in a config file.
C30_EnvOverFileOverDefault ==
  Loaded =>
    \A s \in SettingNames :
      settings[s] \in
        IF FromEnvironment(s) # {} THEN FromEnvironment(s)
        ELSE IF FromConfigFile(s) # {} THEN FromConfigFile(s)
        ELSE {Defaults[s]}

\* C31: for a merge through the normal arm, merge_branches returns true
\* exactly when the merged index holds conflict entries, and false, with
\* the merge commit made, exactly when it holds none; no file of the
\* working tree has a say in it.
C31_ConflictsIffIndexConflicts ==
  (MergeReturned /\ ANALYSIS_NORMAL \in analysis) =>
    /\ has_conflicts
         <=> index_has_conflicts(repo_merge(preMerge, conflictPaths,
                                            excludedPaths))
    /\ ~has_conflicts => repo.mergeCommit # NoCommit

\* C32: when handle_merge reports that all conflicts were resolved, every
\* path the merge left in conflict is staged with a resolution and the
\* index holds no conflict entry, also when get_conflicts left out some
\* of the conflicted paths or returned an empty list.
C32_AllResolvedLeavesNoConflict ==
  (Done /\ report = "AllResolved") =>
    /\ \A p \in conflictPaths :
         /\ repo.index[p].st = "staged"
         /\ repo.index[p].c.kind = "resolution"
    /\ ~index_has_conflicts(repo)

\* C33: handle_merge never returns an error with the repository still in
\* a merge in progress, unless the error is that of abort_merge itself:
\* a failure of get_conflicts, of the merge commit or of the final
\* checkout is followed by an abort.
C33_NoErrorWithMergeInProgress ==
  (Done /\ result.status = "Err" /\ result.kind # "AbortError") =>
    ~repo.mergeHead

\* C34: when handle_merge ends successfully after a merge without
\* conflicts, the repository is not in a merge in progress.
C34_MergedClearsMergeState ==
  (Done /\ NoConflictsReturned /\ result = Ok) => ~repo.mergeHead

\* ------------------------------------- the truncation of the excerpt
\* the slice of ai.rs 90 is in range, or no window is taken at all
ReachesTruncation ==
  \/ FoundStart = 0
  \/ FoundEnd = 0
  \/ (IF FoundStart > 3 THEN FoundStart - 4 ELSE 0)
       <= Min(FoundEnd + 3, Len(content.lines))

\* the text that reaches the truncation of ai.rs 77 or of ai.rs 93
TruncationInput ==
  IF FoundStart = 0 \/ FoundEnd = 0 THEN content ELSE JoinedWindow

\* C35: at both truncation sites, for every text, multi-byte characters
\* included, extract_conflict_content does not panic and returns at most
\* 500 characters (plus the marker); when it truncates, these are the
\* first 500 characters of the text.
C35_TruncationNeverPanics ==
  (Extracted /\ ReachesTruncation) =>
    /\ excerpt.status = "ok"
    /\ Chars(ExcerptText) <= 500
    /\ excerpt.truncated => First500(TruncationInput)

\* ---------------------------- resolve_conflict with the machine integers
\* A u32 is two 16-bit halves, value hi * 2^16 + lo; max_retries is one.
LIMB == 65536
U32(hi, lo) == [hi |-> hi, lo |-> lo]
U32_MAX == U32(LIMB - 1, LIMB - 1)

\* the u32 with the value of the small number n
Small(n) == U32(0, n)

\* a <= b and a > b for u32 a, b
LeqU32(a, b) == a.hi < b.hi \/ (a.hi = b.hi /\ a.lo <= b.lo)
GtU32(a, b) == ~LeqU32(a, b)

\* a + 1 in u32: the wrapped sum, and whether it overflowed
Add1U32(a) ==
  IF a.lo + 1 < LIMB THEN [overflow |-> FALSE, value |-> U32(a.hi, a.lo + 1)]
  ELSE IF a.hi + 1 < LIMB
  THEN [overflow |-> FALSE, value |-> U32(a.hi + 1, 0)]
  ELSE [overflow |-> TRUE, value |-> U32(0, 0)]

\* m * 2^e < 2^64, for 0 < m < 2^31
FitsU64(m, e) ==
  IF e >= 64 THEN FALSE
  ELSE IF 64 - e >= 31 THEN TRUE
  ELSE m < 2 ^ (64 - e)

\* ai.rs 178: 500 * 2u64.pow(attempts as u32), kept as factor and exponent
Backoff64(att) ==
  [overflow |-> ~FitsU64(BACKOFF_BASE_MS, att),
   factor |-> BACKOFF_BASE_MS, exponent |-> att]

\* the longest run of failed attempts followed
MaxAttempts == 58

WideRetries == {Small(0), Small(1), Small(55), Small(56), Small(64), U32_MAX}

\* resolve_conflict at ai.rs 158, for any max_retries and either build
InitWide ==
  /\ pc = "while"
  /\ IdleRepo
  /\ IdleResolver
  /\ apiKey = TRUE
  /\ max_retries \in WideRetries
  /\ conflicts = <<>>
  /\ conflict = NoConflictFile
  /\ description = NoDescription
  /\ content = EmptyText
  /\ excerpt = NoExcerpt
  /\ entries = <<>>
  /\ history = NoHistory
  /\ commits = <<>>
  /\ layers = NoLayers
  /\ settings = NoSettings
  /\ overflow_checks \in BOOLEAN
  /\ wrapped = FALSE

WideFrame ==
  UNCHANGED <<target, source, apiKey, max_retries, analysis, conflictPaths,
              conflictTxtBoth, excludedPaths, repo, preMerge, has_conflicts,
              conflicts, i, all_resolved, failures, lastErr, resolution,
              inflight, mergeCalls, resolveCalls, resolutions, applyCalls,
              abortCalls, outcomes, report, result, retVars, conflict,
              description, content, excerpt, entries, history, commits,
              layers, settings, overflow_checks>>

\* ai.rs 161-166: the loop test, attempts += 1, and max_retries + 1 for
\* the log line; then the request is sent
AttemptWide ==
  /\ pc = "while"
  /\ attempts < MaxAttempts
  /\ IF LeqU32(Small(attempts), max_retries)
     THEN /\ attempts' = attempts + 1
          /\ IF Add1U32(max_retries).overflow
             THEN IF overflow_checks
                  THEN /\ pc' = "panicked"
                       /\ UNCHANGED <<requests, wrapped>>
                  ELSE /\ wrapped' = TRUE
                       /\ requests' = requests + 1
                       /\ pc' = "await_response"
             ELSE /\ requests' = requests + 1
                  /\ pc' = "await_response"
                  /\ wrapped' = wrapped
     ELSE /\ pc' = "ret_err"
          /\ UNCHANGED <<attempts, requests, wrapped>>
  /\ sleeps' = sleeps
  /\ WideFrame

\* ai.rs 167: try_resolve returned Ok
ResponseOkWide ==
  /\ pc = "await_response"
  /\ pc' = "ret_ok"
  /\ UNCHANGED <<attempts, requests, sleeps, wrapped>>
  /\ WideFrame

\* ai.rs 168-176: try_resolve returned Err
ResponseFailWide ==
  /\ pc = "await_response"
  /\ pc' = IF GtU32(Small(attempts), max_retries) THEN "ret_err" ELSE "sleep"
  /\ UNCHANGED <<attempts, requests, sleeps, wrapped>>
  /\ WideFrame

\* ai.rs 178: the backoff is computed and slept
SleepWide ==
  /\ pc = "sleep"
  /\ IF Backoff64(attempts).overflow /\ overflow_checks
     THEN /\ pc' = "panicked"
          /\ UNCHANGED <<sleeps, wrapped>>
     ELSE /\ sleeps' = Append(sleeps, Backoff64(attempts))
          /\ wrapped' = (wrapped \/ Backoff64(attempts).overflow)
          /\ pc' = "while"
  /\ UNCHANGED <<attempts, requests>>
  /\ WideFrame

NextWide ==
  \/ AttemptWide
  \/ ResponseOkWide
  \/ ResponseFailWide
  \/ SleepWide

SpecWide == InitWide /\ [][NextWide]_vars

\* C36: for every u32 max_retries, resolve_conflict ends with a result
\* after at most max_retries + 1 attempts, and neither the attempt
\* counter, nor max_retries + 1, nor the backoff 500 * 2^attempts (u64)
\* overflows or wraps on the way.
C36_NoOverflowInRetryLoop ==
  /\ pc # "panicked"
  /\ ~wrapped
  /\ LeqU32(Small(attempts), max_retries) \/ Small(attempts - 1) = max_retries
  /\ \A k \in 1..Len(sleeps) : ~sleeps[k].overflow

====
